---- MODULE Spec2Model ----
(***************************************************************************)
(* Tool execution core of sisyphus: ToolRegistry (name -> tool),           *)
(* ToolExecutor (validation, dispatch under a timeout, normalisation of    *)
(* the outcome) and ToolOrchestrator (a batch of ToolCall requests turned  *)
(* into ToolCallResult records).                                           *)
(*                                                                         *)
(* Time is counted in ticks; TicksPerCs ticks make one hundredth of a      *)
(* second, the resolution of the "{execution_time:.2f}" rendering.  The    *)
(* caller's own steps (registry lookups, validation, normalisation) take   *)
(* no time, but the caller may pause between two requests; a waiter wakes  *)
(* at its deadline, a body ends when its duration has run.  Text is a      *)
(* tuple of string fragments.                                              *)
(***************************************************************************)
EXTENDS Integers, Sequences, FiniteSets, TLC

VARIABLES
    _tools,           \* ToolRegistry._tools: registered name -> tool object
    _definitions,     \* ToolRegistry._definitions: name -> ToolDefinition
    _lock_instance,   \* ToolRegistry._lock_instance: the thread holding it, or 0
    threads,          \* the threads calling the registry: their call in progress
    registered,       \* history: name -> tool of its latest successful registration
    default_timeout,  \* ToolExecutor.default_timeout
    max_workers,      \* ThreadPoolExecutor(max_workers=...)
    queue,            \* the pool's work queue: futures not yet picked up
    futures,          \* future of request k: [state, left]
    task,             \* the event loop's task of an async body: [state, left]
    tool_calls,       \* execute_tool_calls' argument: the requests' ids, in order
    results,          \* execute_tool_calls' results list
    tool_call,        \* the ToolCall being executed: [id, name, input]
    frame,            \* the executor's frame of the call in progress
    outcome,          \* how executor.execute ended: a ToolResult returned, or a raise
    pc,               \* position of the calling thread
    loader,           \* the register_from_yaml_directory call in progress
    _instance,        \* ToolRegistry._instance: the singleton, or 0 for None
    _lock,            \* ToolRegistry._lock (class level): the thread holding it, or 0
    callers,          \* the threads inside get_instance / reset_instance
    created,          \* history: instances constructed so far, and since the last reset
    messages,         \* Conversation.messages
    chat,             \* the chat loop and handle_message_with_tools: their position
    _shutdown         \* ThreadPoolExecutor._shutdown: shutdown() was called

vars == <<_tools, _definitions, _lock_instance, threads, registered,
          default_timeout, max_workers, queue, futures, task,
          tool_calls, results, tool_call, frame, outcome, pc,
          loader, _instance, _lock, callers, created, messages, chat,
          _shutdown>>

\* The directory loader, the singleton accessor and the chat loop.
loader_vars == <<loader>>
singleton_vars == <<_instance, _lock, callers, created>>
chat_vars == <<messages, chat>>

\* The registry instance, and the executor with its orchestrator.
registry_state == <<_tools, _definitions, _lock_instance, threads, registered>>
executor_state == <<default_timeout, max_workers, queue, futures, task,
                    tool_calls, results, tool_call, frame, outcome, pc, _shutdown>>

\* What the registry's threads leave alone, and what the orchestrator's
\* thread and the pool's workers leave alone (only shutdown() sets _shutdown).
exec_vars == <<default_timeout, max_workers, queue, futures, task,
               tool_calls, results, tool_call, frame, outcome, pc, _shutdown,
               loader_vars, singleton_vars, chat_vars>>
registry_vars == <<_definitions, _lock_instance, threads, registered, _shutdown,
                   loader_vars, singleton_vars, chat_vars>>

----------------------------------------------------------------------------
(* Bounds of the model *)

\* Longest batch handed to execute_tool_calls.
MaxBatch == 2

\* Largest max_workers the executor is constructed with.
MaxWorkers == 2

\* Threads calling the registry at the same time.
MaxThreads == 2

\* Sync calls other callers have in flight on the same executor.
MaxOthers == 1

\* Most entries of a directory handed to register_from_yaml_directory.
MaxFiles == 2

\* Most reset_instance calls.
MaxResets == 2

\* Most user inputs of a chat session.
MaxTurns == 2

\* Ticks per hundredth of a second.
TicksPerCs == 3

\* The duration of a body that never returns.
Hang == 0 - 1

\* Per-call timeouts and body durations (ticks).
Timeouts == {1}
Durations == {0, 2}

Names == {"echo", "fetch"}
Ids == {"tu_a", "tu_b"}

----------------------------------------------------------------------------
(* Values, results and exceptions *)

None == <<>>

StrVal(s) == [t |-> "str", v |-> s]
IntVal(s) == [t |-> "int", v |-> s]
DictVal(s) == [t |-> "dict", v |-> s]
NoneVal == [t |-> "none", v |-> ""]
\* A value json.dumps rejects (a set, bytes, an object).
SetVal(s) == [t |-> "set", v |-> s]

NoMetadata == [execution_time |-> -1, tool_name |-> "", exception_type |-> ""]

\* ToolResult(status, data, error_message, metadata)
ToolResult(status, data, msg, md) ==
    [t |-> "ToolResult", status |-> status, data |-> data,
     error_message |-> msg, metadata |-> md]

\* ToolResult.success(data, execution_time=..., tool_name=...)
ToolResult_success(data, time, name) ==
    ToolResult("success", data, None,
               [NoMetadata EXCEPT !.execution_time = time, !.tool_name = name])

\* ToolResult.timeout(error, execution_time=..., tool_name=...)
ToolResult_timeout(msg, time, name) ==
    ToolResult("timeout", NoneVal, msg,
               [NoMetadata EXCEPT !.execution_time = time, !.tool_name = name])

\* ToolResult.error(error, execution_time=..., tool_name=..., exception_type=...)
ToolResult_error(msg, time, name, etype) ==
    ToolResult("error", NoneVal, msg,
               [execution_time |-> time, tool_name |-> name, exception_type |-> etype])

Exc(type, text) == [type |-> type, text |-> text]

\* The exception classes and their bases (core/tool.py, builtins).
Bases(type) ==
    CASE type \in {"ToolValidationError", "ToolTimeoutError",
                   "ToolNotFoundError", "ToolRegistrationError"}
              -> {type, "ToolExecutionError", "Exception"}
      [] OTHER -> {type, "Exception"}

IsInstance(e, cls) == cls \in Bases(e.type)

Returned(v) == [kind |-> "return", value |-> v]
Raised(e) == [kind |-> "raise", exc |-> e]
NoOutcome == [kind |-> "none"]

----------------------------------------------------------------------------
(* Tools and their JSON schemas *)

\* {"type": "object", "properties": {"message": {"type": "string"}}, "required": [...]}
Schema(required) ==
    [type |-> "object", properties |-> [message |-> "string"], required |-> required]

\* The tool objects of the catalog.  "echo" is a _SyncToolWrapper around a
\* ToolDefinition that declares timeout 1; "fetch" is a plain AsyncTool.
\* timeout 0 stands for a definition without timeout, or no definition.
ToolObj(name) ==
    IF name = "echo"
    THEN [name |-> "echo", is_async |-> FALSE,
          parameters |-> Schema({"message"}), timeout |-> 1]
    ELSE [name |-> name, is_async |-> TRUE,
          parameters |-> Schema({}), timeout |-> 0]

\* jsonschema's type check of one instance value.
JsonType(v) == IF v.t = "str" THEN "string" ELSE IF v.t = "int" THEN "integer" ELSE v.t

\* jsonschema.validate(instance=params, schema=schema): the errors it finds.
SchemaErrors(schema, params) ==
    {<<"root", "'" , r, "' is a required property">> :
        r \in {q \in schema.required : q \notin DOMAIN params}}
    \cup
    {<<k, params[k].v, " is not of type '", schema.properties[k], "'">> :
        k \in {q \in DOMAIN params \cap DOMAIN schema.properties :
                 JsonType(params[q]) # schema.properties[q]}}

\* A validation step that accepts every argument mapping.
ValidationSkipped(tool, params) == NoOutcome

\* ToolExecutor._validate_parameters: no outcome, or ToolValidationError raised.
_validate_parameters(tool, params) ==
    LET errors == SchemaErrors(tool.parameters, params) IN
    IF errors = {} THEN [kind |-> "none"]
    ELSE LET e == CHOOSE x \in errors : TRUE IN
         Raised(Exc("ToolValidationError",
                    <<"Parameter validation failed for tool '", tool.name,
                      "' at ", e[1], ": ">> \o Tail(e)))

\* ToolExecutor._is_async_tool
_is_async_tool(tool) == tool.is_async

----------------------------------------------------------------------------
(* Keyword binding of executor.execute(tool, **input) *)

ControlKeys == {"timeout", "validate_params"}

\* timeout: float | None = None (0 stands for None)
TimeoutArg(input) == IF "timeout" \in DOMAIN input THEN input["timeout"] ELSE 0

\* validate_params: bool = True
ValidateArg(input) ==
    IF "validate_params" \in DOMAIN input THEN input["validate_params"] ELSE TRUE

\* **kwargs: every other key
Kwargs(input) == [k \in DOMAIN input \ ControlKeys |-> input[k]]

\* effective_timeout = timeout if timeout is not None else self.default_timeout
effective_timeout(timeout, tool, default) ==
    IF timeout # 0 THEN timeout ELSE default

----------------------------------------------------------------------------
(* Rendering and normalisation *)

\* "{x:.2f}" of x ticks: hundredths of a second, rounded to the nearest
\* (a half is rounded up, the reading most favourable to the reported figure).
Fmt2(x) == (2 * x + TicksPerCs) \div (2 * TicksPerCs)

\* ToolTimeoutError(f"Tool '{name}' execution exceeded timeout of {t}s (ran for {e:.2f}s)")
ToolTimeoutError(name, timeout, elapsed) ==
    Exc("ToolTimeoutError",
        <<"Tool '", name, "' execution exceeded timeout of ", ToString(timeout),
          "s (ran for ", ToString(Fmt2(elapsed)), "s)">>)

\* A normalisation that wraps whatever the body returned.
NormalizeWrapAlways(result, time, name) == ToolResult_success(result, time, name)

\* The metadata stamp and the wrapping of a bare value.
Normalize(result, time, name) ==
    IF result.t = "ToolResult"
    THEN [result EXCEPT !.metadata.execution_time = time,
                        !.metadata.tool_name = name]
    ELSE ToolResult_success(result, time, name)

\* The except clauses around the dispatch, for an exception e that the
\* body raised and future.result() / wait_for re-raised.
OnBodyException(e, fr) ==
    IF IsInstance(e, "TimeoutError")
    THEN Raised(ToolTimeoutError(fr.tool.name, fr.effective_timeout, fr.elapsed))
    ELSE IF IsInstance(e, "ToolExecutionError")
    THEN Raised(e)
    ELSE Returned(ToolResult_error(
            <<"Tool '", fr.tool.name, "' execution failed: ", e.type, ": ">> \o e.text,
            fr.elapsed, fr.tool.name, e.type))

\* A deadline reported as a returned TIMEOUT result.
OnDeadlineReturned(fr) ==
    Returned(ToolResult_timeout(<<"timed out">>, fr.elapsed, fr.tool.name))

\* The except clause of the wait that timed out (FuturesTimeoutError from
\* future.result, TimeoutError from wait_for).
OnDeadline(fr) ==
    Raised(ToolTimeoutError(fr.tool.name, fr.effective_timeout, fr.elapsed))

\* How the call ends once the body has settled with `out`.
Settle(out, fr) ==
    IF out.kind = "raise" THEN OnBodyException(out.exc, fr)
    ELSE Returned(Normalize(out.value, fr.elapsed, fr.tool.name))

----------------------------------------------------------------------------
(* ToolCallResult *)

\* A result that does not echo the request id.
ToolCallResultNoId(id, content, is_error) ==
    [tool_use_id |-> "", content |-> content, is_error |-> is_error]

\* ToolCallResult(tool_use_id=..., content=..., is_error=...)
ToolCallResult(id, content, is_error) ==
    [tool_use_id |-> id, content |-> content, is_error |-> is_error]

\* json.dumps(data, indent=2): the text, or TypeError for a value that is
\* not JSON serializable
JsonSerializable(data) == data.t \in {"dict", "int", "str", "none"}

JsonDumps(data) == <<data.v>>

\* A missing-tool message without the name.
NotFoundContentGeneric(name) == <<"Error: Tool not found in registry">>

\* f"Error: Tool '{tool_call.name}' not found in registry"
NotFoundContent(name) == <<"Error: Tool '", name, "' not found in registry">>

\* An orchestrator with the ToolNotFoundError clause only.
CaughtNotFoundOnly(e) == IsInstance(e, "ToolNotFoundError")

\* The except clauses of execute_single_tool_call: what they catch.
Caught(e) == IsInstance(e, "ToolNotFoundError") \/ IsInstance(e, "Exception")

\* execute_single_tool_call, lines 76-111: the result of an executor outcome.
Format(id, out) ==
    IF out.kind = "return"
    THEN LET result == out.value IN
         IF result.status = "success"
         THEN IF result.data.t \notin {"none", "str"} /\ ~JsonSerializable(result.data)
              THEN ToolCallResult(id,
                       <<"Execution error: ", "TypeError", ": ", "Object of type ",
                         result.data.t, " is not JSON serializable">>,
                       TRUE)
              ELSE ToolCallResult(id,
                       IF result.data.t = "none" THEN <<"Success">>
                       ELSE IF result.data.t = "str" THEN <<result.data.v>>
                       ELSE JsonDumps(result.data),
                       FALSE)
         ELSE ToolCallResult(id,
                  IF result.error_message # None THEN result.error_message
                  ELSE <<"Unknown error occurred">>,
                  TRUE)
    ELSE IF IsInstance(out.exc, "ToolNotFoundError")
    THEN ToolCallResult(id, <<"Tool not found: ">> \o out.exc.text, TRUE)
    ELSE ToolCallResult(id,
             <<"Execution error: ", out.exc.type, ": ">> \o out.exc.text, TRUE)

----------------------------------------------------------------------------
(* Inputs: what a request passes and what a tool body does *)

MessageValues == {StrVal("hi"), IntVal("123")}

\* ToolCall.input with any of the given keys.
InputsOver(keys, values) ==
    {[k \in S |-> full[k]] :
        S \in SUBSET keys,
        full \in [message : values, timeout : Timeouts,
                  validate_params : {FALSE}]}

Inputs == InputsOver({"message", "timeout", "validate_params"}, MessageValues)

\* What a body returns or raises when it runs to its end.
Ends ==
    {Returned(ToolResult("success", StrVal("hi"), None, NoMetadata)),
     Returned(ToolResult("error", NoneVal, <<"disk full">>, NoMetadata)),
     Returned(ToolResult("cancelled", NoneVal, None, NoMetadata)),
     Returned(StrVal("pong")),
     Returned(DictVal("{\"k\": 1}")),
     Returned(SetVal("{1, 2}")),
     Returned(NoneVal)}
    \cup
    {Raised(Exc(type, <<"boom">>)) :
        type \in {"ValueError", "TimeoutError", "ToolExecutionError",
                  "ToolValidationError"}}

\* A body: its duration, its end, and what it does with a cancellation
\* (an async body may catch CancelledError and carry on).
Bodies(is_async, outs) ==
    {[dur |-> 0, out |-> o, on_cancel |-> "propagate"] : o \in outs}
    \cup
    {[dur |-> d, out |-> o, on_cancel |-> c] :
        d \in Durations \ {0}, o \in outs,
        c \in IF is_async THEN {"propagate", "suppress"} ELSE {"propagate"}}
    \cup
    {[dur |-> Hang, out |-> Returned(NoneVal), on_cancel |-> c] :
        c \in IF is_async THEN {"propagate", "suppress"} ELSE {"propagate"}}

NoBody == [dur |-> 0, out |-> Returned(NoneVal), on_cancel |-> "propagate"]
NoCall == [id |-> "", name |-> "", input |-> <<>>]
NoFrame == [active |-> FALSE]
NoFuture == [state |-> "none", left |-> 0]
NoTask == [state |-> "none", left |-> 0]

Threads == 1..MaxThreads

\* A thread outside the registry.
Idle == [pc |-> "idle", op |-> "", name |-> "", obj |-> 0, resolves |-> FALSE,
         allow_override |-> FALSE, result |-> NoOutcome,
         seen |-> [tools |-> <<>>, defs |-> <<>>]]

\* No register_from_yaml_directory call, no get_instance / reset_instance
\* call, no user input being handled.
NoLoad == [pc |-> "idle", files |-> <<>>, allow_override |-> FALSE, i |-> 0,
           registered_tools |-> <<>>, errors |-> <<>>, result |-> NoOutcome,
           is_dir |-> FALSE,   \* history: the call was made on a directory
           put |-> <<>>,       \* history: the entries the call registered
           resolved |-> {}]    \* history: the entries whose handler was looked up
NoCaller == [pc |-> "idle", op |-> "", result |-> 0,
             clean |-> TRUE]   \* history: no reset_instance call overlapped it
NoChat == [pc |-> "input", iteration |-> 0, exc |-> "", turns |-> 0,
           before |-> <<>>,   \* history: the messages before the user input
           llm_calls |-> 0]   \* history: send_message calls for this input

\* Index of the request the loop is at.
Cur == Len(results) + 1

\* The futures of the calls other callers make on the same executor.
Others == (MaxBatch + 1)..(MaxBatch + MaxOthers)

\* A pool whose worker threads are never handed back.
BusyLeaked ==
    Cardinality({k \in DOMAIN futures : futures[k].state \in {"running", "done"}})

\* A pool that starts a thread for every work item.
BusyNone == Cardinality({k \in DOMAIN futures : FALSE})

\* Worker threads running a body.
Busy == Cardinality({k \in DOMAIN futures : futures[k].state = "running"})

----------------------------------------------------------------------------
(* Initial state: a fresh registry, executor and orchestrator, and the batch
   execute_tool_calls is called with *)

InitWith(defaults, lengths) ==
    /\ _tools = <<>>
    /\ _definitions = <<>>
    /\ _lock_instance = 0
    /\ threads = [t \in Threads |-> Idle]
    /\ registered = <<>>
    /\ default_timeout \in defaults
    /\ max_workers \in 1..MaxWorkers
    /\ queue = <<>>
    /\ futures = [k \in 1..(MaxBatch + MaxOthers) |-> NoFuture]
    /\ task = NoTask
    /\ tool_calls \in UNION {[1..n -> Ids] : n \in lengths}
    /\ results = <<>>
    /\ tool_call = NoCall
    /\ frame = NoFrame
    /\ outcome = NoOutcome
    /\ pc = "loop"
    /\ loader = NoLoad
    /\ _instance = 0
    /\ _lock = 0
    /\ callers = [t \in Threads |-> NoCaller]
    /\ created = [total |-> 0, since_reset |-> 0, resets |-> 0]
    /\ messages = <<>>
    /\ chat = NoChat
    /\ _shutdown = FALSE

----------------------------------------------------------------------------
(* ToolRegistry, called by other threads *)

\* register(tool, allow_override): raises ToolRegistrationError (no change)
\* when the name is taken and allow_override is False.
register(tool, allow_override) ==
    /\ allow_override \/ tool.name \notin DOMAIN _tools
    /\ _tools' = [n \in DOMAIN _tools \cup {tool.name} |->
                    IF n = tool.name THEN tool ELSE _tools[n]]

Register(names) ==
    /\ \E n \in names, allow_override \in BOOLEAN :
          register(ToolObj(n), allow_override)
    /\ UNCHANGED <<default_timeout, max_workers, queue, futures, task,
                   tool_calls, results, tool_call, frame, outcome, pc>>
    /\ UNCHANGED registry_vars

\* unregister(name): raises ToolNotFoundError (no change) when absent.
Unregister ==
    /\ \E n \in DOMAIN _tools :
          _tools' = [m \in DOMAIN _tools \ {n} |-> _tools[m]]
    /\ UNCHANGED <<default_timeout, max_workers, queue, futures, task,
                   tool_calls, results, tool_call, frame, outcome, pc>>
    /\ UNCHANGED registry_vars

----------------------------------------------------------------------------
(* ToolOrchestrator.execute_tool_calls *)

\* for call in tool_calls: the next request, its name and input
NextCall(names, inputs) ==
    /\ pc = "loop"
    /\ Cur <= Len(tool_calls)
    /\ \E name \in names, input \in inputs :
          tool_call' = [id |-> tool_calls[Cur], name |-> name, input |-> input]
    /\ pc' = "has"
    /\ UNCHANGED <<_tools, default_timeout, max_workers, queue, futures, task,
                   tool_calls, results, frame, outcome>>
    /\ UNCHANGED registry_vars

\* return results
Return ==
    /\ pc = "loop"
    /\ Cur > Len(tool_calls)
    /\ pc' = "done"
    /\ UNCHANGED <<_tools, default_timeout, max_workers, queue, futures, task,
                   tool_calls, results, tool_call, frame, outcome>>
    /\ UNCHANGED registry_vars

\* if not self.registry.has(tool_call.name): return ToolCallResult(... not found ...)
Has ==
    /\ pc = "has"
    /\ IF tool_call.name \in DOMAIN _tools
       THEN /\ pc' = "get"
            /\ UNCHANGED <<results, tool_call>>
       ELSE /\ results' = Append(results,
                  ToolCallResult(tool_call.id, NotFoundContent(tool_call.name), TRUE))
            /\ tool_call' = NoCall
            /\ pc' = "loop"
    /\ UNCHANGED <<_tools, default_timeout, max_workers, queue, futures, task,
                   tool_calls, frame, outcome>>
    /\ UNCHANGED registry_vars

\* tool = self.registry.get(tool_call.name): ToolNotFoundError when absent
Get ==
    /\ pc = "get"
    /\ IF tool_call.name \in DOMAIN _tools
       THEN /\ frame' = [active |-> TRUE, tool |-> _tools[tool_call.name]]
            /\ pc' = "execute"
            /\ UNCHANGED outcome
       ELSE /\ outcome' = Raised(Exc("ToolNotFoundError",
                             <<"Tool '", tool_call.name, "' is not registered">>))
            /\ pc' = "settled"
            /\ UNCHANGED frame
    /\ UNCHANGED <<_tools, default_timeout, max_workers, queue, futures, task,
                   tool_calls, results, tool_call>>
    /\ UNCHANGED registry_vars

----------------------------------------------------------------------------
(* ToolExecutor.execute / _execute_sync / execute_async *)

\* The frame of executor.execute(tool, **tool_call.input) at start_time.
NewFrame(tool, input) ==
    [active |-> TRUE,
     tool |-> tool,
     timeout |-> TimeoutArg(input),
     validate_params |-> ValidateArg(input),
     kwargs |-> Kwargs(input),
     effective_timeout |-> effective_timeout(TimeoutArg(input), tool, default_timeout),
     elapsed |-> 0,
     body |-> NoBody,
     invoked |-> FALSE,           \* the body has been started
     delivered |-> NoOutcome,     \* what future.result() / wait_for delivered
     deadline_hit |-> FALSE,      \* the wait's timeout has fired
     idle_at_submit |->           \* no body was running or queued
         queue = <<>> /\ \A k \in DOMAIN futures : futures[k].state # "running"]

\* if validate_params: self._validate_parameters(tool, kwargs)
Validation(fr) ==
    IF fr.validate_params THEN _validate_parameters(fr.tool, fr.kwargs)
    ELSE NoOutcome

\* Validation, then the dispatch: submit to the pool (sync) or start the
\* coroutine under wait_for (async).
Execute(outs) ==
    /\ pc = "execute"
    /\ LET fr == NewFrame(frame.tool, tool_call.input) IN
       IF Validation(fr).kind = "raise"
       THEN /\ frame' = fr
            /\ outcome' = Validation(fr)
            /\ pc' = "settled"
            /\ UNCHANGED <<queue, futures, task>>
       ELSE \E body \in Bodies(_is_async_tool(fr.tool), outs) :
            IF _is_async_tool(fr.tool)
            THEN /\ frame' = [fr EXCEPT !.body = body, !.invoked = TRUE]
                 /\ task' = [state |-> "running", left |-> body.dur]
                 /\ pc' = "await"
                 /\ UNCHANGED <<queue, futures, outcome>>
            ELSE IF _shutdown
            THEN /\ frame' = [fr EXCEPT !.body = body]
                 /\ outcome' = OnBodyException(
                        Exc("RuntimeError", <<"cannot schedule new futures after shutdown">>),
                        fr)
                 /\ pc' = "settled"
                 /\ UNCHANGED <<queue, futures, task>>
            ELSE /\ frame' = [fr EXCEPT !.body = body]
                 /\ futures' = [futures EXCEPT
                                  ![Cur] = [state |-> "queued", left |-> body.dur]]
                 /\ queue' = Append(queue, Cur)
                 /\ pc' = "wait"
                 /\ UNCHANGED <<task, outcome>>
    /\ UNCHANGED <<_tools, default_timeout, max_workers, tool_calls, results, tool_call>>
    /\ UNCHANGED registry_vars

\* A worker that invokes the body of whatever work item it takes.
WorkerStartCancelled ==
    /\ queue # <<>>
    /\ Busy < max_workers
    /\ queue' = Tail(queue)
    /\ futures' = [futures EXCEPT ![Head(queue)].state = "running"]
    /\ frame' = IF pc = "wait" /\ Head(queue) = Cur
                THEN [frame EXCEPT !.invoked = TRUE] ELSE frame
    /\ UNCHANGED <<_tools, default_timeout, max_workers, task, tool_calls, results,
                   tool_call, outcome, pc>>
    /\ UNCHANGED registry_vars

\* A free worker thread takes the next work item; a cancelled one is dropped,
\* any other one has its body invoked.
WorkerStart ==
    /\ queue # <<>>
    /\ Busy < max_workers
    /\ queue' = Tail(queue)
    /\ LET k == Head(queue) IN
       IF futures[k].state = "cancelled"
       THEN UNCHANGED <<futures, frame>>
       ELSE /\ futures' = [futures EXCEPT ![k].state = "running"]
            /\ frame' = IF pc = "wait" /\ k = Cur
                        THEN [frame EXCEPT !.invoked = TRUE] ELSE frame
    /\ UNCHANGED <<_tools, default_timeout, max_workers, task, tool_calls, results,
                   tool_call, outcome, pc>>
    /\ UNCHANGED registry_vars

\* A body run by a worker thread ends; the worker is free again.
BodyFinish ==
    /\ \E k \in DOMAIN futures :
          /\ futures[k].state = "running"
          /\ futures[k].left = 0
          /\ futures' = [futures EXCEPT ![k].state = "done"]
    /\ UNCHANGED <<_tools, default_timeout, max_workers, queue, task, tool_calls,
                   results, tool_call, frame, outcome, pc>>
    /\ UNCHANGED registry_vars

\* executor.shutdown(), or leaving `with ToolExecutor() as executor`, between
\* two calls: self._thread_pool.shutdown(wait=True) marks the pool as shut down
\* and waits for the worker threads
Shutdown ==
    /\ pc = "loop"
    /\ ~_shutdown
    /\ _shutdown' = TRUE
    /\ pc' = "shutdown"
    /\ UNCHANGED <<_tools, default_timeout, max_workers, queue, futures, task,
                   tool_calls, results, tool_call, frame, outcome>>
    /\ UNCHANGED <<_definitions, _lock_instance, threads, registered,
                   loader_vars, singleton_vars, chat_vars>>

\* A shutdown(wait=False): it comes back at once.
ShutdownNoWait ==
    /\ pc = "shutdown"
    /\ pc' = "loop"
    /\ UNCHANGED <<_tools, default_timeout, max_workers, queue, futures, task,
                   tool_calls, results, tool_call, frame, outcome>>
    /\ UNCHANGED registry_vars

\* shutdown(wait=True) comes back: the workers have emptied the queue and
\* ended, each after the body it was running
ShutdownReturn ==
    /\ pc = "shutdown"
    /\ queue = <<>>
    /\ Busy = 0
    /\ pc' = "loop"
    /\ UNCHANGED <<_tools, default_timeout, max_workers, queue, futures, task,
                   tool_calls, results, tool_call, frame, outcome>>
    /\ UNCHANGED registry_vars

\* result = future.result(timeout=effective_timeout), the body has ended
FutureResult ==
    /\ pc = "wait"
    /\ futures[Cur].state = "done"
    /\ outcome' = Settle(frame.body.out, frame)
    /\ frame' = [frame EXCEPT !.delivered = frame.body.out]
    /\ pc' = "settled"
    /\ UNCHANGED <<_tools, default_timeout, max_workers, queue, futures, task,
                   tool_calls, results, tool_call>>
    /\ UNCHANGED registry_vars

\* except FuturesTimeoutError: future.cancel(); raise ToolTimeoutError(...)
FutureTimeout ==
    /\ pc = "wait"
    /\ futures[Cur].state \in {"queued", "running"}
    /\ frame.elapsed >= frame.effective_timeout
    /\ futures' = [futures EXCEPT ![Cur].state =
                      IF @ = "queued" THEN "cancelled" ELSE @]
    /\ outcome' = OnDeadline(frame)
    /\ frame' = [frame EXCEPT !.deadline_hit = TRUE]
    /\ pc' = "settled"
    /\ UNCHANGED <<_tools, default_timeout, max_workers, queue, task, tool_calls,
                   results, tool_call>>
    /\ UNCHANGED registry_vars

\* await asyncio.wait_for(...): the body has ended, before the deadline or
\* after having caught the cancellation
AwaitResult ==
    /\ pc = "await"
    /\ task.left = 0
    /\ outcome' = Settle(frame.body.out, frame)
    /\ frame' = [frame EXCEPT !.delivered = frame.body.out]
    /\ task' = NoTask
    /\ pc' = "settled"
    /\ UNCHANGED <<_tools, default_timeout, max_workers, queue, futures, tool_calls,
                   results, tool_call>>
    /\ UNCHANGED registry_vars

\* wait_for's deadline: the task is cancelled and awaited; a body that lets
\* CancelledError through ends now and ToolTimeoutError is raised, one that
\* catches it runs on and wait_for keeps waiting for it
AwaitTimeout ==
    /\ pc = "await"
    /\ task.state = "running"
    /\ frame.elapsed >= frame.effective_timeout
    /\ frame' = [frame EXCEPT !.deadline_hit = TRUE]
    /\ IF frame.body.on_cancel = "propagate"
       THEN /\ task' = NoTask
            /\ outcome' = OnDeadline(frame)
            /\ pc' = "settled"
       ELSE /\ task' = [task EXCEPT !.state = "cancelling"]
            /\ UNCHANGED <<outcome, pc>>
    /\ UNCHANGED <<_tools, default_timeout, max_workers, queue, futures, tool_calls,
                   results, tool_call>>
    /\ UNCHANGED registry_vars

\* execute_single_tool_call, lines 76-111, and results.append(result); an
\* exception no except clause catches leaves execute_tool_calls
Append_result ==
    /\ pc = "settled"
    /\ IF outcome.kind = "raise" /\ ~Caught(outcome.exc)
       THEN /\ pc' = "raised"
            /\ UNCHANGED <<results, tool_call, frame, outcome>>
       ELSE /\ results' = Append(results, Format(tool_call.id, outcome))
            /\ tool_call' = NoCall
            /\ frame' = NoFrame
            /\ outcome' = NoOutcome
            /\ pc' = "loop"
    /\ UNCHANGED <<_tools, default_timeout, max_workers, queue, futures, task,
                   tool_calls>>
    /\ UNCHANGED registry_vars

----------------------------------------------------------------------------
(* Time *)

\* Something is due now: a body at its end, a work item a free worker can
\* take, a waiter whose future is done or whose deadline has come.
Due ==
    \/ \E k \in DOMAIN futures : futures[k].state = "running" /\ futures[k].left = 0
    \/ queue # <<>> /\ Busy < max_workers
    \/ pc = "wait" /\ (futures[Cur].state = "done"
                        \/ frame.elapsed >= frame.effective_timeout)
    \/ pc = "await" /\ (task.left = 0
                         \/ (task.state = "running"
                             /\ frame.elapsed >= frame.effective_timeout))
    \/ pc = "shutdown" /\ queue = <<>> /\ Busy = 0

\* Time matters to someone: a waiting caller or a body still running (the
\* caller may be slow between two requests and after the batch).  A
\* caller blocked for good on a body that caught its cancellation and never
\* ends is followed one tick past its deadline.
Running ==
    \/ pc = "wait"
    \/ pc = "await" /\ (task.left # Hang \/ frame.elapsed <= frame.effective_timeout)
    \/ pc \in {"loop", "done", "shutdown"} /\ \E k \in DOMAIN futures :
                         futures[k].state = "running" /\ futures[k].left > 0

Tick ==
    /\ pc \in {"wait", "await", "loop", "done", "shutdown"}
    /\ ~Due
    /\ Running
    /\ futures' = [k \in DOMAIN futures |->
                     IF futures[k].state = "running" /\ futures[k].left > 0
                     THEN [futures[k] EXCEPT !.left = @ - 1] ELSE futures[k]]
    /\ task' = IF task.state # "none" /\ task.left > 0
               THEN [task EXCEPT !.left = @ - 1] ELSE task
    /\ frame' = IF pc \in {"wait", "await"}
                THEN [frame EXCEPT !.elapsed = @ + 1] ELSE frame
    /\ UNCHANGED <<_tools, default_timeout, max_workers, queue, tool_calls, results,
                   tool_call, outcome, pc>>
    /\ UNCHANGED registry_vars

----------------------------------------------------------------------------

(* One call through the orchestrator, over every input and body *)

Init == InitWith({3}, {1})

Next ==
    \/ Register(Names)
    \/ Unregister
    \/ NextCall(Names, Inputs)
    \/ Return
    \/ Has
    \/ Get
    \/ Execute(Ends)
    \/ WorkerStart
    \/ BodyFinish
    \/ FutureResult
    \/ FutureTimeout
    \/ AwaitResult
    \/ AwaitTimeout
    \/ Append_result
    \/ Tick

Spec == Init /\ [][Next]_vars

----------------------------------------------------------------------------
(* A batch of calls of the sync tool, over the kinds of failure of a request *)

BatchInputs == InputsOver({"message"}, {StrVal("hi")})

BatchEnds ==
    {Returned(ToolResult("success", StrVal("hi"), None, NoMetadata)),
     Raised(Exc("ValueError", <<"boom">>)),
     Raised(Exc("ToolExecutionError", <<"boom">>))}

InitBatch == InitWith({1}, 0..MaxBatch)

NextBatch ==
    \/ Register({"echo"})
    \/ Unregister
    \/ NextCall({"echo"}, BatchInputs)
    \/ Return
    \/ Has
    \/ Get
    \/ Execute(BatchEnds)
    \/ WorkerStart
    \/ BodyFinish
    \/ FutureResult
    \/ FutureTimeout
    \/ Append_result
    \/ Tick

SpecBatch == InitBatch /\ [][NextBatch]_vars

\* The same calls made on an executor that is shut down at some point
NextShutdown ==
    \/ NextBatch
    \/ Shutdown
    \/ ShutdownReturn

SpecShutdown == InitBatch /\ [][NextShutdown]_vars

----------------------------------------------------------------------------
(* One call of the sync tool while other callers have calls in flight on the
   same executor *)

\* Another caller's _execute_sync submits its body to the pool (line 214):
\* a body that ends at once, a slow one or one that never returns.
OtherSubmit ==
    /\ \E k \in Others, dur \in Durations \cup {Hang} :
          /\ futures[k].state = "none"
          /\ futures' = [futures EXCEPT ![k] = [state |-> "queued", left |-> dur]]
          /\ queue' = Append(queue, k)
    /\ UNCHANGED <<_tools, default_timeout, max_workers, task, tool_calls, results,
                   tool_call, frame, outcome, pc>>
    /\ UNCHANGED registry_vars

\* Another caller's deadline (lines 218-219): future.cancel() takes a work
\* item still queued out of the pool and leaves a running body alone.
OtherTimeout ==
    /\ \E k \in Others :
          /\ futures[k].state = "queued"
          /\ futures' = [futures EXCEPT ![k].state = "cancelled"]
    /\ UNCHANGED <<_tools, default_timeout, max_workers, queue, task, tool_calls,
                   results, tool_call, frame, outcome, pc>>
    /\ UNCHANGED registry_vars

InitConcurrent == InitWith({1}, {1})

NextConcurrent ==
    \/ Register({"echo"})
    \/ Unregister
    \/ NextCall({"echo"}, BatchInputs)
    \/ Return
    \/ Has
    \/ Get
    \/ Execute(BatchEnds)
    \/ OtherSubmit
    \/ OtherTimeout
    \/ WorkerStart
    \/ BodyFinish
    \/ FutureResult
    \/ FutureTimeout
    \/ Append_result
    \/ Tick

SpecConcurrent == InitConcurrent /\ [][NextConcurrent]_vars

----------------------------------------------------------------------------
(* ToolRegistry under concurrent callers: every method body runs inside
   `with self._lock_instance:` *)

\* A tool instance handed to register, and the wrapper that
\* _create_tool_from_handler builds for a definition; obj tells objects apart.
Instance(name, obj) == [name |-> name, obj |-> obj, via |-> "instance"]
Wrapper(definition) ==
    [name |-> definition.name, obj |-> definition.obj, via |-> "definition"]

\* A ToolDefinition; resolves tells whether its handler path can be imported.
Definition(name, obj, resolves) == [name |-> name, obj |-> obj, resolves |-> resolves]

Put(f, k, v) == [n \in DOMAIN f \cup {k} |-> IF n = k THEN v ELSE f[n]]
\* A del that deletes nothing.
DropNothing(f, k) == f
Drop(f, k) == [n \in DOMAIN f \ {k} |-> f[n]]

\* sorted(...) of tool names
NameOrder == <<"echo", "fetch">>
\* The names in descending order.
Descending(S) == SelectSeq(<<"fetch", "echo">>, LAMBDA n : n \in S)
Sorted(S) == SelectSeq(NameOrder, LAMBDA n : n \in S)

ToolRegistrationError(name) == Exc("ToolRegistrationError", <<name>>)
ToolNotFoundError(name) ==
    Exc("ToolNotFoundError", <<"Tool '", name, "' is not registered">>)

\* A lock that excludes nobody.
LockIgnored == TRUE

\* threading.Lock: free to be taken
LockFree == _lock_instance = 0

\* A register that never refuses a name.
register_never_raises(tool, allow_override) == FALSE

\* if not allow_override and tool.name in self._tools: raise ToolRegistrationError
register_raises(tool, allow_override) ==
    ~allow_override /\ tool.name \in DOMAIN _tools

\* if not allow_override and definition.name in self._definitions: raise ...
register_from_definition_raises(definition, allow_override) ==
    ~allow_override /\ definition.name \in DOMAIN _definitions

\* A has that looks the name up among the definitions.
has_definition(name) == name \in DOMAIN _definitions

\* return name in self._tools
has(name) == name \in DOMAIN _tools

\* get: the tool, or ToolNotFoundError
get(name) ==
    IF name \notin DOMAIN _tools THEN Raised(ToolNotFoundError(name))
    ELSE Returned(_tools[name])

\* format_tools_for_anthropic(registry): for each name of registry.list(),
\* an entry made from its definition, if get_definition returns one
format_tools_for_anthropic ==
    LET names == SelectSeq(Sorted(DOMAIN _tools),
                           LAMBDA n : n \in DOMAIN _definitions)
    IN  [k \in DOMAIN names |-> [name |-> _definitions[names[k]].name]]

\* The calls a thread makes: each thread brings its own objects.
Calls(t) ==
    {[Idle EXCEPT !.op = "register", !.name = n, !.obj = t, !.allow_override = a] :
        n \in Names, a \in BOOLEAN}
    \cup
    {[Idle EXCEPT !.op = "register_from_definition", !.name = n, !.obj = t,
                  !.resolves = r, !.allow_override = a] : n \in Names, r, a \in BOOLEAN}
    \cup
    {[Idle EXCEPT !.op = o, !.name = n] :
        o \in {"unregister", "get", "has", "get_definition"}, n \in Names}
    \cup
    {[Idle EXCEPT !.op = o] : o \in {"clear", "list"}}

\* A thread calls a method of the registry and gets through
\* `with self._lock_instance:`; until then it has done nothing.
Acquire(t) ==
    /\ threads[t].pc = "idle"
    /\ LockFree
    /\ _lock_instance' = t
    /\ \E c \in Calls(t) :
          threads' = [threads EXCEPT ![t] =
                        [c EXCEPT !.pc = "locked",
                                  !.seen = [tools |-> _tools, defs |-> _definitions]]]
    /\ UNCHANGED <<_tools, _definitions, registered>>
    /\ UNCHANGED exec_vars

\* The thread is inside the lock, in the body of method op.
In(t, op) == threads[t].pc = "locked" /\ threads[t].op = op

\* The body ends with this result.
Ends_with(t, result) ==
    threads' = [threads EXCEPT ![t].pc = "release", ![t].result = result]

\* register, lines 98-106
ThreadRegister(t) ==
    /\ In(t, "register")
    /\ LET tool == Instance(threads[t].name, threads[t].obj) IN
       IF register_raises(tool, threads[t].allow_override)
       THEN /\ Ends_with(t, Raised(ToolRegistrationError(tool.name)))
            /\ UNCHANGED _tools
       ELSE /\ _tools' = Put(_tools, tool.name, tool)
            /\ Ends_with(t, Returned(None))
    /\ UNCHANGED <<_definitions, _lock_instance, registered>>
    /\ UNCHANGED exec_vars

\* register_from_definition, lines 124-133: the duplicate check, then the
\* definition is stored
ThreadRegisterFromDefinition(t) ==
    /\ In(t, "register_from_definition")
    /\ LET definition == Definition(threads[t].name, threads[t].obj, threads[t].resolves) IN
       IF register_from_definition_raises(definition, threads[t].allow_override)
       THEN /\ Ends_with(t, Raised(ToolRegistrationError(definition.name)))
            /\ UNCHANGED _definitions
       ELSE /\ _definitions' = Put(_definitions, definition.name, definition)
            /\ threads' = [threads EXCEPT ![t].pc = "resolve"]
    /\ UNCHANGED <<_tools, _lock_instance, registered>>
    /\ UNCHANGED exec_vars

\* register_from_definition, lines 135-145: the handler is resolved and the
\* wrapper stored, or ToolRegistrationError is raised
ThreadResolve(t) ==
    /\ threads[t].pc = "resolve"
    /\ LET definition == Definition(threads[t].name, threads[t].obj, threads[t].resolves) IN
       IF definition.resolves
       THEN /\ _tools' = Put(_tools, definition.name, Wrapper(definition))
            /\ Ends_with(t, Returned(None))
       ELSE /\ Ends_with(t, Raised(ToolRegistrationError(definition.name)))
            /\ UNCHANGED _tools
    /\ UNCHANGED <<_definitions, _lock_instance, registered>>
    /\ UNCHANGED exec_vars

\* unregister, lines 314-321
ThreadUnregister(t) ==
    /\ In(t, "unregister")
    /\ LET name == threads[t].name IN
       IF name \notin DOMAIN _tools
       THEN /\ Ends_with(t, Raised(ToolNotFoundError(name)))
            /\ UNCHANGED <<_tools, _definitions>>
       ELSE /\ _tools' = Drop(_tools, name)
            /\ _definitions' = Drop(_definitions, name)
            /\ Ends_with(t, Returned(None))
    /\ UNCHANGED <<_lock_instance, registered>>
    /\ UNCHANGED exec_vars

\* clear, lines 329-331
ThreadClear(t) ==
    /\ In(t, "clear")
    /\ _tools' = <<>>
    /\ _definitions' = <<>>
    /\ Ends_with(t, Returned(None))
    /\ UNCHANGED <<_lock_instance, registered>>
    /\ UNCHANGED exec_vars

\* get, lines 244-250
ThreadGet(t) ==
    /\ In(t, "get")
    /\ Ends_with(t, get(threads[t].name))
    /\ UNCHANGED <<_tools, _definitions, _lock_instance, registered>>
    /\ UNCHANGED exec_vars

\* has, lines 273-274
ThreadHas(t) ==
    /\ In(t, "has")
    /\ Ends_with(t, Returned(has(threads[t].name)))
    /\ UNCHANGED <<_tools, _definitions, _lock_instance, registered>>
    /\ UNCHANGED exec_vars

\* list, lines 282-284
ThreadList(t) ==
    /\ In(t, "list")
    /\ Ends_with(t, Returned(Sorted(DOMAIN _tools)))
    /\ UNCHANGED <<_tools, _definitions, _lock_instance, registered>>
    /\ UNCHANGED exec_vars

\* get_definition, lines 261-262: self._definitions.get(name)
ThreadGetDefinition(t) ==
    /\ In(t, "get_definition")
    /\ Ends_with(t, Returned(IF threads[t].name \in DOMAIN _definitions
                             THEN _definitions[threads[t].name] ELSE None))
    /\ UNCHANGED <<_tools, _definitions, _lock_instance, registered>>
    /\ UNCHANGED exec_vars

\* The history of successful registrations after a call that ended: the
\* tool a successful register / register_from_definition registered, nothing
\* for a name after a successful unregister or clear.
Recorded(c) ==
    IF c.result.kind = "raise" THEN registered
    ELSE CASE c.op = "register" -> Put(registered, c.name, Instance(c.name, c.obj))
           [] c.op = "register_from_definition" ->
                  Put(registered, c.name, Wrapper(Definition(c.name, c.obj, c.resolves)))
           [] c.op = "unregister" -> Drop(registered, c.name)
           [] c.op = "clear" -> <<>>
           [] OTHER -> registered

\* with self._lock_instance: (exit, by return or by exception); the method
\* returns to its caller
Release(t) ==
    /\ threads[t].pc = "release"
    /\ _lock_instance' = 0
    /\ registered' = Recorded(threads[t])
    /\ threads' = [threads EXCEPT ![t] = Idle]
    /\ UNCHANGED <<_tools, _definitions>>
    /\ UNCHANGED exec_vars

InitRegistry == InitWith({1}, {0})

NextRegistry ==
    \/ \E t \in Threads : Acquire(t)
    \/ \E t \in Threads : ThreadRegister(t)
    \/ \E t \in Threads : ThreadRegisterFromDefinition(t)
    \/ \E t \in Threads : ThreadResolve(t)
    \/ \E t \in Threads : ThreadUnregister(t)
    \/ \E t \in Threads : ThreadClear(t)
    \/ \E t \in Threads : ThreadGet(t)
    \/ \E t \in Threads : ThreadHas(t)
    \/ \E t \in Threads : ThreadList(t)
    \/ \E t \in Threads : ThreadGetDefinition(t)
    \/ \E t \in Threads : Release(t)

SpecRegistry == InitRegistry /\ [][NextRegistry]_vars

----------------------------------------------------------------------------
(* ToolRegistry.register_from_yaml and register_from_yaml_directory *)

RequiredKeys == {"name", "description", "parameters", "handler"}

\* The names of the model that match ^[a-z][a-z0-9_]*$.
NamePattern(name) == name \in {"echo", "fetch"}

\* What a directory entry holds: a YAML mapping with these keys and values,
\* unless it cannot be read, is no mapping or is no regular file.
ValidFile(name, resolves) ==
    [is_file |-> TRUE, readable |-> TRUE, mapping |-> TRUE,
     keys |-> RequiredKeys, name |-> name,
     parameters |-> [keys |-> {"type", "properties"}, type |-> "object",
                     properties_is_dict |-> TRUE],
     timeout |-> 30, resolves |-> resolves]

FileContents ==
    {ValidFile(n, r) : n \in Names, r \in BOOLEAN}
    \cup
    {[ValidFile("echo", TRUE) EXCEPT !.keys = ks] :
        ks \in {RequiredKeys \ {k} : k \in RequiredKeys}}
    \cup
    {[ValidFile("echo", TRUE) EXCEPT !.name = "Echo"]}
    \cup
    {[ValidFile("echo", TRUE) EXCEPT !.parameters = ps] :
        ps \in {[keys |-> {"properties"}, type |-> "", properties_is_dict |-> TRUE],
                [keys |-> {"type", "properties"}, type |-> "string",
                 properties_is_dict |-> TRUE],
                [keys |-> {"type"}, type |-> "object", properties_is_dict |-> FALSE],
                [keys |-> {"type", "properties"}, type |-> "object",
                 properties_is_dict |-> FALSE]}}
    \cup
    {[ValidFile("echo", TRUE) EXCEPT !.keys = RequiredKeys \cup {"timeout"},
                                     !.timeout = x] : x \in {30, 0, 0 - 30}}
    \cup
    {[ValidFile("echo", TRUE) EXCEPT !.readable = FALSE],
     [ValidFile("echo", TRUE) EXCEPT !.mapping = FALSE],
     [ValidFile("echo", TRUE) EXCEPT !.is_file = FALSE]}

\* directory.glob(pattern): the entries in the order glob yields them; the
\* i-th one has the i-th path.
Directories == UNION {[1..n -> FileContents] : n \in 0..MaxFiles}
PathNames == <<"a.yaml", "b.yaml", "c.yaml", "d.yaml">>

\* validate_parameters_schema raises ValueError
validate_parameters_schema(v) ==
    \/ "type" \notin v.keys
    \/ v.type # "object"
    \/ "properties" \notin v.keys
    \/ ~v.properties_is_dict

\* A ToolDefinition that accepts any data.
ToolDefinitionUnchecked(data) == FALSE

\* ToolDefinition(**data) raises ValidationError: a required field is
\* missing, the name does not match the pattern, the parameters validator
\* raises, or timeout is given and not > 0
ToolDefinition_raises(data) ==
    \/ ~(RequiredKeys \subseteq data.keys)
    \/ ~NamePattern(data.name)
    \/ validate_parameters_schema(data.parameters)
    \/ ("timeout" \in data.keys /\ data.timeout <= 0)

\* register_from_yaml(path) on the registry as it is: the maps after it,
\* whether it raised ToolRegistrationError and why, and whether
\* _resolve_handler was called.
register_from_yaml(file, path, allow_override) ==
    LET definition == Definition(file.name, path, file.resolves)
        raises(reason) == [tools |-> _tools, defs |-> _definitions, raised |-> TRUE,
                           reason |-> reason, resolved |-> FALSE]
    IN
    IF ~file.readable THEN raises("No such file or permission denied")
    ELSE IF ~file.mapping THEN raises("YAML must contain a dictionary")
    ELSE IF ToolDefinition_raises(file) THEN raises("validation error for ToolDefinition")
    ELSE IF register_from_definition_raises(definition, allow_override)
    THEN raises("Tool definition is already registered")
    ELSE IF ~definition.resolves
    THEN [tools |-> _tools, defs |-> Put(_definitions, definition.name, definition),
          raised |-> TRUE, reason |-> "Cannot import module", resolved |-> TRUE]
    ELSE [tools |-> Put(_tools, definition.name, Wrapper(definition)),
          defs |-> Put(_definitions, definition.name, definition),
          raised |-> FALSE, reason |-> "", resolved |-> TRUE]

\* An aggregate error that is never raised.
AggregateNever(errors) == FALSE

\* if errors: raise ToolRegistrationError(...)
AggregateRaised(errors) == errors # <<>>

RECURSIVE ErrorMessages(_)
\* "\n".join(f"{path}: {error}" for path, error in errors)
ErrorMessages(errors) ==
    IF errors = <<>> THEN <<>>
    ELSE <<PathNames[Head(errors)[1]], ": ", Head(errors)[2]>>
         \o ErrorMessages(Tail(errors))

\* register_from_yaml_directory is called: not a directory raises at once
LoadDirectory ==
    /\ loader.pc = "idle"
    /\ \E is_dir \in BOOLEAN, files \in Directories, allow_override \in BOOLEAN :
          loader' = IF is_dir
                    THEN [NoLoad EXCEPT !.pc = "loop", !.files = files, !.i = 1,
                                        !.allow_override = allow_override,
                                        !.is_dir = TRUE]
                    ELSE [NoLoad EXCEPT !.pc = "done", !.result =
                            Raised(Exc("ToolRegistrationError",
                                <<"Directory does not exist or is not a directory">>))]
    /\ UNCHANGED <<_tools, _definitions, _lock_instance, threads, registered>>
    /\ UNCHANGED executor_state
    /\ UNCHANGED <<singleton_vars, chat_vars>>

\* One turn of `for yaml_file in directory.glob(pattern)`: an entry that is
\* no file is passed over; else register_from_yaml, then the name is read
\* back from the file and appended, or the exception is appended to errors
LoadFile ==
    /\ loader.pc = "loop"
    /\ loader.i <= Len(loader.files)
    /\ LET file == loader.files[loader.i]
           r == register_from_yaml(file, loader.i, loader.allow_override)
       IN
       IF ~file.is_file
       THEN /\ loader' = [loader EXCEPT !.i = @ + 1]
            /\ UNCHANGED <<_tools, _definitions>>
       ELSE /\ _tools' = r.tools
            /\ _definitions' = r.defs
            /\ loader' = [loader EXCEPT
                  !.i = @ + 1,
                  !.registered_tools =
                      IF ~r.raised /\ file.mapping /\ "name" \in file.keys
                      THEN Append(@, file.name) ELSE @,
                  !.errors = IF r.raised THEN Append(@, <<loader.i, r.reason>>) ELSE @,
                  !.put = IF r.raised THEN @ ELSE Append(@, loader.i),
                  !.resolved = IF r.resolved THEN @ \cup {loader.i} ELSE @]
    /\ UNCHANGED <<_lock_instance, threads, registered>>
    /\ UNCHANGED executor_state
    /\ UNCHANGED <<singleton_vars, chat_vars>>

\* After the loop: the aggregate ToolRegistrationError, or the list
LoadEnd ==
    /\ loader.pc = "loop"
    /\ loader.i > Len(loader.files)
    /\ loader' = [loader EXCEPT
          !.pc = "done",
          !.result =
              IF AggregateRaised(loader.errors)
              THEN Raised(Exc("ToolRegistrationError",
                       <<"Failed to register ", ToString(Len(loader.errors)),
                         " tool(s):">> \o ErrorMessages(loader.errors)))
              ELSE Returned(loader.registered_tools)]
    /\ UNCHANGED <<_tools, _definitions, _lock_instance, threads, registered>>
    /\ UNCHANGED executor_state
    /\ UNCHANGED <<singleton_vars, chat_vars>>

InitLoader == InitWith({1}, {0})

\* The registry may hold tools registered with register() before the call.
NextLoader ==
    \/ loader.pc = "idle" /\ Register(Names)
    \/ loader.pc = "idle" /\ Unregister
    \/ LoadDirectory
    \/ LoadFile
    \/ LoadEnd

SpecLoader == InitLoader /\ [][NextLoader]_vars

----------------------------------------------------------------------------
(* ToolRegistry.get_instance and reset_instance, called by several threads.
   Instances are numbered in the order of their construction; 0 is None. *)

\* A thread is inside reset_instance.
Resetting == \E t \in Threads : callers[t].pc \in {"reset", "reset_done"}

\* get_instance is called
GetInstance(t) ==
    /\ callers[t].pc = "idle"
    /\ callers' = [callers EXCEPT ![t] =
                     [NoCaller EXCEPT !.pc = "check", !.op = "get_instance",
                                      !.clean = ~Resetting]]
    /\ UNCHANGED <<_instance, _lock, created>>
    /\ UNCHANGED <<registry_state, executor_state, loader_vars, chat_vars>>

\* if cls._instance is None: (outside the lock)
FirstCheck(t) ==
    /\ callers[t].pc = "check"
    /\ callers' = [callers EXCEPT ![t].pc =
                     IF _instance = 0 THEN "acquire" ELSE "return"]
    /\ UNCHANGED <<_instance, _lock, created>>
    /\ UNCHANGED <<registry_state, executor_state, loader_vars, chat_vars>>

\* with cls._lock: (entry)
AcquireClassLock(t) ==
    /\ callers[t].pc = "acquire"
    /\ _lock = 0
    /\ _lock' = t
    /\ callers' = [callers EXCEPT ![t].pc = "inside"]
    /\ UNCHANGED <<_instance, created>>
    /\ UNCHANGED <<registry_state, executor_state, loader_vars, chat_vars>>

\* A second check that always finds None.
NoSecondCheck == TRUE

\* if cls._instance is None: (inside the lock)
SecondCheck == _instance = 0

\* cls._instance = cls() if the second check finds None; the lock is released
Construct(t) ==
    /\ callers[t].pc = "inside"
    /\ _lock = t
    /\ IF SecondCheck
       THEN /\ _instance' = created.total + 1
            /\ created' = [created EXCEPT !.total = @ + 1, !.since_reset = @ + 1]
       ELSE UNCHANGED <<_instance, created>>
    /\ _lock' = 0
    /\ callers' = [callers EXCEPT ![t].pc = "return"]
    /\ UNCHANGED <<registry_state, executor_state, loader_vars, chat_vars>>

\* return cls._instance (read outside the lock)
ReturnInstance(t) ==
    /\ callers[t].pc = "return"
    /\ callers' = [callers EXCEPT ![t].pc = "done", ![t].result = _instance]
    /\ UNCHANGED <<_instance, _lock, created>>
    /\ UNCHANGED <<registry_state, executor_state, loader_vars, chat_vars>>

\* reset_instance is called; the get_instance calls in progress, or returned
\* and not yet used, overlap it
ResetInstance(t) ==
    /\ callers[t].pc = "idle"
    /\ created.resets < MaxResets
    /\ callers' = [u \in Threads |->
                     IF u = t THEN [NoCaller EXCEPT !.pc = "reset",
                                                    !.op = "reset_instance"]
                     ELSE [callers[u] EXCEPT !.clean = FALSE]]
    /\ created' = [created EXCEPT !.resets = @ + 1]
    /\ UNCHANGED <<_instance, _lock>>
    /\ UNCHANGED <<registry_state, executor_state, loader_vars, chat_vars>>

\* with cls._lock: cls._instance = None
ResetInside(t) ==
    /\ callers[t].pc = "reset"
    /\ _lock = 0
    /\ _instance' = 0
    /\ created' = [created EXCEPT !.since_reset = 0]
    /\ callers' = [callers EXCEPT ![t].pc = "reset_done"]
    /\ UNCHANGED _lock
    /\ UNCHANGED <<registry_state, executor_state, loader_vars, chat_vars>>

\* The call has returned and its caller has used the result.
CallerDone(t) ==
    /\ callers[t].pc \in {"done", "reset_done"}
    /\ callers' = [callers EXCEPT ![t] = NoCaller]
    /\ UNCHANGED <<_instance, _lock, created>>
    /\ UNCHANGED <<registry_state, executor_state, loader_vars, chat_vars>>

InitSingleton == InitWith({1}, {0})

NextSingleton ==
    \/ \E t \in Threads : GetInstance(t)
    \/ \E t \in Threads : FirstCheck(t)
    \/ \E t \in Threads : AcquireClassLock(t)
    \/ \E t \in Threads : Construct(t)
    \/ \E t \in Threads : ReturnInstance(t)
    \/ \E t \in Threads : ResetInstance(t)
    \/ \E t \in Threads : ResetInside(t)
    \/ \E t \in Threads : CallerDone(t)

SpecSingleton == InitSingleton /\ [][NextSingleton]_vars

----------------------------------------------------------------------------
(* The chat loop (ui/cli.py) and handle_message_with_tools *)

SixIterations == 2 * 3

max_iterations == 5

Message(role, type, text) == [role |-> role, content |-> [type |-> type, text |-> text]]

\* /clear: conversation.clear()
ClearCommand ==
    /\ chat.pc = "input"
    /\ messages # <<>>
    /\ messages' = <<>>
    /\ UNCHANGED chat
    /\ UNCHANGED <<registry_state, executor_state, loader_vars, singleton_vars>>

\* A user input that is no command: handle_message_with_tools is entered,
\* conversation.add_user_message(user_input)
UserInput ==
    /\ chat.pc = "input"
    /\ chat.turns < MaxTurns
    /\ \E user_input \in {"hello", "list the files"} :
          messages' = Append(messages, Message("user", "text", user_input))
    /\ chat' = [chat EXCEPT !.pc = "send", !.iteration = 0, !.exc = "",
                            !.turns = @ + 1, !.before = messages,
                            !.llm_calls = 0]
    /\ UNCHANGED <<registry_state, executor_state, loader_vars, singleton_vars>>

\* client.send_message answers with text: add_assistant_message(text); return
SendText ==
    /\ chat.pc = "send"
    /\ chat.iteration < max_iterations
    /\ messages' = Append(messages, Message("assistant", "text", "done"))
    /\ chat' = [chat EXCEPT !.pc = "input", !.llm_calls = @ + 1]
    /\ UNCHANGED <<registry_state, executor_state, loader_vars, singleton_vars>>

\* client.send_message answers with tool calls: the assistant's tool_use
\* message is added, the tools are executed, the tool_result message is added
SendToolUse ==
    /\ chat.pc = "send"
    /\ chat.iteration < max_iterations
    /\ messages' = messages \o <<Message("assistant", "tool_use", ""),
                                  Message("user", "tool_result", "")>>
    /\ chat' = [chat EXCEPT !.iteration = @ + 1, !.llm_calls = @ + 1]
    /\ UNCHANGED <<registry_state, executor_state, loader_vars, singleton_vars>>

\* client.send_message raises LLMConnectionError or LLMAPIError, which leaves
\* handle_message_with_tools
SendFails ==
    /\ chat.pc = "send"
    /\ chat.iteration < max_iterations
    /\ \E exc \in {"LLMConnectionError", "LLMAPIError"} :
          chat' = [chat EXCEPT !.pc = "except", !.exc = exc, !.llm_calls = @ + 1]
    /\ UNCHANGED messages
    /\ UNCHANGED <<registry_state, executor_state, loader_vars, singleton_vars>>

\* After max_iterations tool-use rounds: add_assistant_message(error_msg)
MaxIterations ==
    /\ chat.pc = "send"
    /\ chat.iteration = max_iterations
    /\ messages' = Append(messages,
          Message("assistant", "text", "Error: Maximum tool use iterations reached"))
    /\ chat' = [chat EXCEPT !.pc = "input"]
    /\ UNCHANGED <<registry_state, executor_state, loader_vars, singleton_vars>>

\* except LLMConnectionError / except LLMAPIError:
\* conversation.messages.pop(); continue
HandleError ==
    /\ chat.pc = "except"
    /\ messages' = SubSeq(messages, 1, Len(messages) - 1)
    /\ chat' = [chat EXCEPT !.pc = "input"]
    /\ UNCHANGED <<registry_state, executor_state, loader_vars, singleton_vars>>

InitChat == InitWith({1}, {0})

NextChat ==
    \/ ClearCommand
    \/ UserInput
    \/ SendText
    \/ SendToolUse
    \/ SendFails
    \/ MaxIterations
    \/ HandleError

SpecChat == InitChat /\ [][NextChat]_vars

\* The thread inside handle_message_with_tools keeps running: every call the
\* loop makes (send_message, the tool round) comes back.
SpecChatFair ==
    SpecChat /\ WF_vars(SendText \/ SendToolUse \/ SendFails \/ MaxIterations)

----------------------------------------------------------------------------
(* Vocabulary of the properties *)

\* The executor has been entered for the current request and has settled.
Settled == pc = "settled" /\ frame.active

\* The arguments satisfy the schema's required and type constraints.
Satisfies(schema, args) ==
    /\ \A r \in schema.required : r \in DOMAIN args
    /\ \A k \in DOMAIN args \cap DOMAIN schema.properties :
          JsonType(args[k]) = schema.properties[k]

RaisedType(out, type) == out.kind = "raise" /\ out.exc.type = type

ReturnedStatus(out, statuses) == out.kind = "return" /\ out.value.status \in statuses

Distinguished == {"ToolValidationError", "ToolTimeoutError",
                  "ToolNotFoundError", "ToolRegistrationError"}

Contains(msg, frag) == \E i \in DOMAIN msg : msg[i] = frag

\* The "ran for" figure of a ToolTimeoutError message, in hundredths of a second.
Reported(e) == CHOOSE c \in 0..100 : ToString(c) = e.text[6]

\* The sync body of the settled call ran longer than the effective timeout.
SyncOverrun ==
    /\ Settled
    /\ ~frame.tool.is_async
    /\ Validation(frame).kind # "raise"
    /\ (frame.body.dur = Hang \/ frame.body.dur > frame.effective_timeout)

----------------------------------------------------------------------------
(* Properties of ToolExecutor, over Spec *)

\* C1 (as stated): with validate_params=True, arguments that satisfy the schema
\* never end in ToolValidationError; arguments that violate a required-field
\* or type constraint always end in ToolValidationError and the body is never
\* invoked (nothing is submitted to the pool or the event loop).
C1_AsStated ==
    Settled /\ frame.validate_params =>
        IF Satisfies(frame.tool.parameters, frame.kwargs)
        THEN ~RaisedType(outcome, "ToolValidationError")
        ELSE /\ RaisedType(outcome, "ToolValidationError")
             /\ ~frame.invoked
             /\ futures[Cur].state = "none" /\ task.state = "none"

\* C1 (amended): with validate_params=True, a call whose arguments satisfy the
\* schema raises ToolValidationError only when the body itself was run and
\* raised that very error; a call whose arguments violate a required-field or
\* type constraint always raises ToolValidationError and its body is never
\* invoked (nothing is submitted to the pool or the event loop).
C1_Validation ==
    Settled /\ frame.validate_params =>
        IF Satisfies(frame.tool.parameters, frame.kwargs)
        THEN RaisedType(outcome, "ToolValidationError") =>
                /\ frame.invoked
                /\ frame.delivered = outcome
        ELSE /\ RaisedType(outcome, "ToolValidationError")
             /\ ~frame.invoked
             /\ futures[Cur].state = "none" /\ task.state = "none"

C1_Witness ==
    /\ Settled /\ frame.validate_params
    /\ ~Satisfies(frame.tool.parameters, frame.kwargs)
    /\ RaisedType(outcome, "ToolValidationError")
    /\ ~frame.invoked

\* C2: when the body raises an exception that is not one of the distinguished
\* kinds (generic ToolExecutionError, ValueError, TimeoutError, ...), execute
\* returns an ERROR ToolResult whose message has the type name and the text
\* and whose metadata has exception_type, tool_name and execution_time.
C2_BodyExceptionContained ==
    (Settled /\ frame.delivered.kind = "raise"
             /\ frame.delivered.exc.type \notin Distinguished) =>
        LET e == frame.delivered.exc IN
        /\ ReturnedStatus(outcome, {"error"})
        /\ Contains(outcome.value.error_message, e.type)
        /\ \A i \in DOMAIN e.text : Contains(outcome.value.error_message, e.text[i])
        /\ outcome.value.metadata.exception_type = e.type
        /\ outcome.value.metadata.tool_name = frame.tool.name
        /\ outcome.value.metadata.execution_time = frame.elapsed

\* C3 (as stated): a sync body that runs longer than the effective timeout
\* always ends in ToolTimeoutError, raised when the timeout elapses, and the
\* elapsed time the error reports is at least the configured timeout.
C3_AsStated ==
    SyncOverrun =>
        /\ RaisedType(outcome, "ToolTimeoutError")
        /\ frame.elapsed = frame.effective_timeout
        /\ Reported(outcome.exc) * TicksPerCs >= frame.effective_timeout

\* C3 (amended): a sync body that runs longer than the effective timeout
\* always ends in ToolTimeoutError, raised when the timeout elapses (the
\* measured time is the timeout, not the body's duration), and the elapsed
\* time the error reports, a figure rounded to hundredths of a second, is no
\* less than the configured timeout minus half a hundredth.
C3_SyncTimeout ==
    SyncOverrun =>
        /\ RaisedType(outcome, "ToolTimeoutError")
        /\ frame.elapsed = frame.effective_timeout
        /\ 2 * TicksPerCs * Reported(outcome.exc) + TicksPerCs
              >= 2 * frame.effective_timeout

C3_Witness ==
    /\ SyncOverrun
    /\ RaisedType(outcome, "ToolTimeoutError")
    /\ frame.invoked
    /\ Reported(outcome.exc) * TicksPerCs < frame.effective_timeout

\* C4: every call returns or raises no later than its effective timeout after
\* dispatch, whatever the body does: the caller is never still waiting, and
\* never settles, later than that.
C4_Bounded ==
    (pc \in {"wait", "await", "settled"} /\ frame.active) =>
        frame.elapsed <= frame.effective_timeout

\* C5: the effective timeout is the per-call timeout if given, else the
\* timeout the tool's definition declares, else the executor's default_timeout.
C5_EffectiveTimeout ==
    (pc \in {"wait", "await", "settled"} /\ frame.active) =>
        frame.effective_timeout =
            IF frame.timeout # 0 THEN frame.timeout
            ELSE IF frame.tool.timeout # 0 THEN frame.tool.timeout
            ELSE default_timeout

\* C6: a validation failure always ends in ToolValidationError raised and an
\* elapsed deadline in ToolTimeoutError raised; neither cause ever ends in a
\* returned ToolResult.
C6_RaisedNotReturned ==
    Settled =>
        /\ (frame.validate_params
              /\ ~Satisfies(frame.tool.parameters, frame.kwargs))
              => RaisedType(outcome, "ToolValidationError")
        /\ frame.deadline_hit => RaisedType(outcome, "ToolTimeoutError")

\* C7: a ToolResult the body returns is returned with status, data and
\* error_message unchanged and with metadata execution_time and tool_name
\* set; any other value v is returned as a SUCCESS ToolResult with data v, no
\* error_message and the same two metadata entries.
C7_Normalization ==
    (Settled /\ frame.delivered.kind = "return") =>
        LET v == frame.delivered.value IN
        /\ outcome.kind = "return"
        /\ outcome.value.metadata.execution_time = frame.elapsed
        /\ outcome.value.metadata.tool_name = frame.tool.name
        /\ IF v.t = "ToolResult"
           THEN /\ outcome.value.status = v.status
                /\ outcome.value.data = v.data
                /\ outcome.value.error_message = v.error_message
           ELSE /\ outcome.value.status = "success"
                /\ outcome.value.data = v
                /\ outcome.value.error_message = None

C7_Witness ==
    /\ Settled
    /\ frame.delivered = Returned(StrVal("pong"))
    /\ ReturnedStatus(outcome, {"success"})
    /\ outcome.value.metadata.tool_name = frame.tool.name

\* C22: when an async body has not ended by the effective deadline, the call
\* ends in ToolTimeoutError and the body's task is cancelled: once the call
\* has ended the task is gone and takes no further step.
C22_AsyncTimeoutCancels ==
    /\ (Settled /\ frame.tool.is_async /\ frame.deadline_hit) =>
           RaisedType(outcome, "ToolTimeoutError")
    /\ pc # "await" => task = NoTask

----------------------------------------------------------------------------
(* Properties of ToolOrchestrator *)

\* The executor's outcome is a failure.
Failed ==
    IF outcome.kind = "return" THEN outcome.value.status # "success"
    ELSE outcome.kind = "raise"

\* The step appends a result for the current request, marked as an error.
AppendsError ==
    /\ pc' = "loop"
    /\ Len(results') = Len(results) + 1
    /\ results'[Len(results')].is_error
    /\ results'[Len(results')].tool_use_id = tool_call.id
    /\ \A k \in 1..Len(results) : results'[k] = results[k]

C9_OrderPreserved ==
    /\ Len(results) <= Len(tool_calls)
    /\ \A k \in 1..Len(results) : results[k].tool_use_id = tool_calls[k]
    /\ pc = "done" => Len(results) = Len(tool_calls)

C9_Witness ==
    /\ pc = "done"
    /\ Len(results) >= 2
    /\ results[1].is_error /\ ~results[2].is_error
    /\ tool_calls[1] # tool_calls[2]

\* The outcomes of the settled call had it been executed alone (an idle
\* pool): validation as it was, else the body's end if it comes by the
\* deadline, the timeout if the deadline comes first.
AloneOutcomes(fr) ==
    IF Validation(fr).kind = "raise" THEN {Validation(fr)}
    ELSE (IF fr.body.dur # Hang /\ fr.body.dur <= fr.effective_timeout
          THEN {Settle(fr.body.out, [fr EXCEPT !.elapsed = fr.body.dur])}
          ELSE {})
         \cup
         (IF fr.body.dur = Hang \/ fr.body.dur >= fr.effective_timeout
          THEN {OnDeadline([fr EXCEPT !.elapsed = fr.effective_timeout])}
          ELSE {})

\* C10: requests of a batch are independent: whatever failed before it, the
\* result of a request equals the result it would get executed alone
\* against the same registry.
C10_Independent ==
    Settled =>
        Format(tool_call.id, outcome) \in
            {Format(tool_call.id, o) : o \in AloneOutcomes(frame)}

----------------------------------------------------------------------------
(* Properties of the orchestrator's use of the executor *)

\* C11: the executor validates and dispatches exactly the request's argument
\* mapping, with validation enabled and no per-call timeout: no key of the
\* arguments changes the timeout or disables validation, and the body gets
\* every key.
C11_ArgumentsPassedWhole ==
    (pc \in {"wait", "await", "settled"} /\ frame.active) =>
        /\ frame.timeout = 0
        /\ frame.effective_timeout = default_timeout
        /\ frame.validate_params
        /\ DOMAIN frame.kwargs = DOMAIN tool_call.input

\* The payload as text: the string itself, else its serialization.
Rendered(data) == <<data.v>>

\* C12: a SUCCESS ToolResult becomes a result with is_error = False whose
\* content is the payload rendered as text; any other status becomes a result
\* with is_error = True whose content is the error_message, or a generic
\* fallback text when there is none.
C12_OutcomeMapping ==
    [][(pc = "settled" /\ pc' = "loop" /\ outcome.kind = "return") =>
          LET r == results'[Len(results')]
              v == outcome.value
          IN  IF v.status = "success"
              THEN ~r.is_error /\ r.content = Rendered(v.data)
              ELSE /\ r.is_error
                   /\ r.content = IF v.error_message # None THEN v.error_message
                                  ELSE <<"Unknown error occurred">>]_vars

\* C13: a request naming a tool that registry.has reports absent gets a result
\* with is_error = True whose content has the name, and neither the executor
\* nor a tool body is entered for it.
C13_MissingTool ==
    [][(pc = "has" /\ pc' # "has" /\ tool_call.name \notin DOMAIN _tools) =>
          /\ AppendsError
          /\ Contains(results'[Len(results')].content, tool_call.name)
          /\ frame' = NoFrame
          /\ UNCHANGED <<queue, futures, task, outcome>>]_vars

C13_Witness ==
    /\ pc = "loop"
    /\ Len(results) = 1
    /\ results[1].is_error
    /\ results[1].content[1] = "Error: Tool '"
    /\ \A k \in DOMAIN futures : futures[k].state = "none"

----------------------------------------------------------------------------
(* Properties of the worker pool, over SpecBatch *)

RunningBodies == {k \in DOMAIN futures : futures[k].state = "running"}

\* The settled sync call was dispatched with a body that ends within its timeout.
SyncInTime ==
    /\ Settled
    /\ ~frame.tool.is_async
    /\ Validation(frame).kind # "raise"
    /\ frame.body.dur # Hang /\ frame.body.dur < frame.effective_timeout

\* C19: timeouts never exhaust the pool for good: once no body is running any
\* more every worker slot is free, and a call made then whose body ends
\* within its timeout returns that body's result.
C19_PoolReclaimed ==
    /\ RunningBodies = {} => Busy = 0
    /\ (SyncInTime /\ frame.idle_at_submit) =>
          /\ ~frame.deadline_hit
          /\ frame.delivered = frame.body.out
          /\ outcome = Settle(frame.body.out, frame)

C19_Witness ==
    /\ SyncInTime /\ frame.idle_at_submit
    /\ outcome.kind = "return"
    /\ \E k \in 1..Len(results) :
          /\ Contains(results[k].content, "ToolTimeoutError")
          /\ futures[k].state = "done"

\* A sync call that passes validation is queued, whatever the pool is doing.
QueuedNotRejected ==
    [][(pc = "execute" /\ pc' # "execute" /\ ~frame.tool.is_async
          /\ Validation(NewFrame(frame.tool, tool_call.input)).kind # "raise") =>
             /\ pc' = "wait"
             /\ futures'[Cur].state = "queued"
             /\ queue' = Append(queue, Cur)]_vars

----------------------------------------------------------------------------
(* Properties of concurrent calls on one executor, over SpecConcurrent *)

\* C21: concurrent execute calls on one executor are independent: a call
\* whose body needs less time than its effective timeout returns that body's
\* result, whatever the calls other callers have in flight (slow, hanging,
\* failing or timed out) are doing.
C21_ConcurrentIndependent ==
    SyncInTime =>
        /\ ~frame.deadline_hit
        /\ frame.delivered = frame.body.out
        /\ outcome = Settle(frame.body.out, frame)

----------------------------------------------------------------------------
(* Properties of ToolRegistry, over SpecRegistry *)

SameMap(f, g) == DOMAIN f = DOMAIN g /\ \A k \in DOMAIN f : f[k] = g[k]

\* The registry as other threads can observe it: nobody is inside the lock.
Observable == _lock_instance = 0

\* Thread t has ended the body of method op and is about to return.
Leaving(t, op) == threads[t].pc = "release" /\ threads[t].op = op

\* C14: register of a name already registered: with allow_override = False
\* it raises ToolRegistrationError and the registry is unchanged (get still
\* returns the first tool); with allow_override = True it succeeds and get
\* returns the second tool from then on.
C14_DuplicateRegister ==
    [][\A t \in Threads :
          (In(t, "register") /\ threads[t].name \in DOMAIN _tools
              /\ threads'[t].pc = "release") =>
             LET name == threads[t].name IN
             IF ~threads[t].allow_override
             THEN /\ threads'[t].result = Raised(ToolRegistrationError(name))
                  /\ _tools' = _tools
                  /\ get(name) = Returned(_tools'[name])
             ELSE /\ threads'[t].result = Returned(None)
                  /\ _tools'[name] = Instance(name, threads[t].obj)
                  /\ \A n \in DOMAIN _tools \ {name} : _tools'[n] = _tools[n]]_vars

C14_Witness ==
    \E t \in Threads :
        /\ Leaving(t, "register")
        /\ ~threads[t].allow_override
        /\ threads[t].result.kind = "raise"
        /\ threads[t].name \in DOMAIN _tools
        /\ _tools[threads[t].name].obj # t

\* C15: register_from_definition with allow_override = False of a name that
\* has a registered tool, whichever way it was registered, raises
\* ToolRegistrationError and the registered tool stays.
C15_UniqueAcrossPaths ==
    \A t \in Threads :
        (Leaving(t, "register_from_definition") /\ ~threads[t].allow_override
            /\ threads[t].name \in DOMAIN threads[t].seen.tools) =>
           /\ threads[t].result = Raised(ToolRegistrationError(threads[t].name))
           /\ threads[t].name \in DOMAIN _tools
           /\ _tools[threads[t].name] = threads[t].seen.tools[threads[t].name]

\* C16: in every state a thread can observe, a name has a stored definition
\* only if it has a registered tool.
C16_NoHalfRegistered ==
    Observable => DOMAIN _definitions \subseteq DOMAIN _tools

\* C17: has(name) is true exactly when a tool was successfully registered
\* under name and not unregistered or cleared since; get(name) returns the
\* tool of the latest successful registration and raises ToolNotFoundError
\* exactly when has(name) is false.
C17_RegistryView ==
    /\ Observable => SameMap(_tools, registered)
    /\ \A t \in Threads :
          /\ Leaving(t, "has") =>
                threads[t].result = Returned(threads[t].name \in DOMAIN registered)
          /\ Leaving(t, "get") =>
                threads[t].result =
                    IF threads[t].name \in DOMAIN registered
                    THEN Returned(registered[threads[t].name])
                    ELSE Raised(ToolNotFoundError(threads[t].name))

C17_Witness ==
    \E t \in Threads :
        /\ Leaving(t, "get")
        /\ threads[t].result.kind = "return"
        /\ threads[t].result.value.obj # t
        /\ "echo" \in DOMAIN registered

\* What the call does to a registry that no other thread touches: the maps
\* after it and its result.
Sequential(c) ==
    LET tools == c.seen.tools
        defs == c.seen.defs
        same(result) == [tools |-> tools, defs |-> defs, result |-> result]
    IN
    CASE c.op = "register" ->
           IF ~c.allow_override /\ c.name \in DOMAIN tools
           THEN same(Raised(ToolRegistrationError(c.name)))
           ELSE [tools |-> Put(tools, c.name, Instance(c.name, c.obj)),
                 defs |-> defs, result |-> Returned(None)]
      [] c.op = "register_from_definition" ->
           LET definition == Definition(c.name, c.obj, c.resolves) IN
           IF ~c.allow_override /\ c.name \in DOMAIN defs
           THEN same(Raised(ToolRegistrationError(c.name)))
           ELSE IF c.resolves
           THEN [tools |-> Put(tools, c.name, Wrapper(definition)),
                 defs |-> Put(defs, c.name, definition), result |-> Returned(None)]
           ELSE [tools |-> tools, defs |-> Put(defs, c.name, definition),
                 result |-> Raised(ToolRegistrationError(c.name))]
      [] c.op = "unregister" ->
           IF c.name \notin DOMAIN tools THEN same(Raised(ToolNotFoundError(c.name)))
           ELSE [tools |-> Drop(tools, c.name), defs |-> Drop(defs, c.name),
                 result |-> Returned(None)]
      [] c.op = "clear" -> [tools |-> <<>>, defs |-> <<>>, result |-> Returned(None)]
      [] c.op = "get" ->
           same(IF c.name \in DOMAIN tools THEN Returned(tools[c.name])
                ELSE Raised(ToolNotFoundError(c.name)))
      [] c.op = "has" -> same(Returned(c.name \in DOMAIN tools))
      [] c.op = "list" -> same(Returned(Sorted(DOMAIN tools)))
      [] c.op = "get_definition" ->
           same(Returned(IF c.name \in DOMAIN defs THEN defs[c.name] ELSE None))

\* C18: under any interleaving every registry operation takes effect
\* atomically: one thread at most is inside the registry, and when a call
\* ends, its result and the registry are those of the call applied alone to
\* the registry as it was when the call took the lock; so the calls are
\* ordered by their turns at the lock.
C18_Atomic ==
    /\ Cardinality({t \in Threads :
                      threads[t].pc \in {"locked", "resolve", "release"}}) <= 1
    /\ \A t \in Threads :
          threads[t].pc = "release" =>
             LET q == Sequential(threads[t]) IN
             /\ threads[t].result.kind = q.result.kind
             /\ threads[t].result = q.result
             /\ SameMap(_tools, q.tools)
             /\ SameMap(_definitions, q.defs)

C18_Witness ==
    \E t, u \in Threads :
        /\ threads[t].pc = "resolve" /\ _lock_instance = t
        /\ u # t /\ threads[u].pc = "idle"
        /\ threads[t].name \in DOMAIN _definitions \ DOMAIN _tools

\* C26: unregister(name) of a registered name removes the tool and its
\* definition (has(name) is false, get(name) raises ToolNotFoundError,
\* get_definition(name) is None) and leaves every other name as it was;
\* unregister of an absent name raises ToolNotFoundError and changes nothing;
\* after clear() list() is empty and no name has a definition.
C26_UnregisterClear ==
    [][\A t \in Threads :
          /\ (In(t, "unregister") /\ threads'[t].pc = "release") =>
                LET name == threads[t].name IN
                IF has(name)
                THEN /\ threads'[t].result = Returned(None)
                     /\ ~has(name)'
                     /\ get(name)' = Raised(ToolNotFoundError(name))
                     /\ name \notin DOMAIN _definitions'
                     /\ \A n \in Names \ {name} :
                           /\ n \in DOMAIN _tools <=> n \in DOMAIN _tools'
                           /\ n \in DOMAIN _tools => _tools'[n] = _tools[n]
                           /\ n \in DOMAIN _definitions <=> n \in DOMAIN _definitions'
                           /\ n \in DOMAIN _definitions =>
                                 _definitions'[n] = _definitions[n]
                ELSE /\ threads'[t].result = Raised(ToolNotFoundError(name))
                     /\ SameMap(_tools', _tools)
                     /\ SameMap(_definitions', _definitions)
          /\ (In(t, "clear") /\ threads'[t].pc = "release") =>
                /\ Sorted(DOMAIN _tools)' = <<>>
                /\ DOMAIN _definitions' = {}]_vars

C26_Witness ==
    \E t \in Threads :
        /\ Leaving(t, "unregister")
        /\ threads[t].result = Returned(None)
        /\ threads[t].name \in DOMAIN threads[t].seen.defs
        /\ threads[t].name \notin DOMAIN _definitions
        /\ \E n \in DOMAIN _tools : n \in DOMAIN _definitions

\* Ascending lexicographic order of the names of the model.
Precedes(a, b) == a = "echo" /\ b = "fetch"

\* C27: list() returns exactly the names for which has(name) is true, each
\* once, in ascending lexicographic order, and does not modify the registry;
\* its result being determined by the set of registered names, two calls
\* with no mutation in between return the same sequence.
C27_ListSorted ==
    \A t \in Threads :
        Leaving(t, "list") =>
            LET l == threads[t].result.value IN
            /\ threads[t].result.kind = "return"
            /\ {l[k] : k \in DOMAIN l} = {n \in Names : has(n)}
            /\ \A j, k \in DOMAIN l : j < k => Precedes(l[j], l[k])
            /\ SameMap(_tools, threads[t].seen.tools)
            /\ SameMap(_definitions, threads[t].seen.defs)

C27_Witness ==
    \E t \in Threads :
        /\ Leaving(t, "list")
        /\ Len(threads[t].result.value) = 2
        /\ _tools["echo"].via # _tools["fetch"].via
        /\ _tools["echo"].obj # t

\* C29: format_tools_for_anthropic advertises all registered tools: after any
\* sequence of registry operations its output has exactly one entry for every
\* name of registry.list(), in that order, whichever way the tool was
\* registered.
C29_AllAdvertised ==
    Observable =>
        [k \in DOMAIN format_tools_for_anthropic |->
            format_tools_for_anthropic[k].name] = Sorted(DOMAIN _tools)

\* C28: get_instance is a thread-safe singleton: between two
\* reset_instance calls at most one instance is created, and every
\* get_instance call made then, from any thread and however the calls
\* interleave, returns that instance; after a reset_instance it is an
\* instance constructed after the reset, so a different one than before.
C28_Singleton ==
    /\ created.since_reset <= 1
    /\ \A t \in Threads :
          (callers[t].pc = "done" /\ callers[t].clean) =>
             /\ callers[t].result # 0
             /\ callers[t].result = _instance
             /\ callers[t].result = created.total
             /\ created.since_reset = 1
    /\ \A t, u \in Threads :
          (callers[t].pc = "done" /\ callers[t].clean
             /\ callers[u].pc = "done" /\ callers[u].clean) =>
                callers[t].result = callers[u].result

C28_Witness ==
    \E t, u \in Threads :
        /\ t # u
        /\ callers[t].pc = "done" /\ callers[t].clean
        /\ callers[u].pc = "acquire" /\ callers[u].clean
        /\ created.resets >= 1
        /\ callers[t].result > 1

----------------------------------------------------------------------------
(* Properties of the YAML loaders, over SpecLoader *)

\* The shape of the file's definition is invalid: the file is unreadable or
\* no mapping, a required field is missing, the name does not match the
\* pattern, the parameters have no type 'object' or no properties mapping,
\* or the timeout is not positive.
InvalidShape(file) ==
    \/ ~file.readable
    \/ ~file.mapping
    \/ \E k \in {"name", "description", "parameters", "handler"} : k \notin file.keys
    \/ ~NamePattern(file.name)
    \/ "type" \notin file.parameters.keys \/ file.parameters.type # "object"
    \/ "properties" \notin file.parameters.keys
    \/ ~file.parameters.properties_is_dict
    \/ ("timeout" \in file.keys /\ file.timeout <= 0)

\* Registered alone into an empty registry, the entry succeeds.
ValidAlone(file) == file.is_file /\ ~InvalidShape(file) /\ file.resolves

\* The call on a directory has ended.
Loaded == loader.pc = "done" /\ loader.is_dir

Range(q) == {q[k] : k \in DOMAIN q}

\* The entries of the directory whose registration failed.
FailedEntries ==
    {i \in DOMAIN loader.files : loader.files[i].is_file /\ i \notin Range(loader.put)}

\* C23: register_from_yaml_directory neither fails fast nor rolls back: every
\* file of the directory is attempted whatever happened to the files before
\* it, and when the call has returned or raised, every definition of the
\* directory that is valid on its own is registered (has(name) is true).
C23_NoFailFast ==
    Loaded =>
        /\ Len(loader.errors) + Len(loader.put) =
               Cardinality({i \in DOMAIN loader.files : loader.files[i].is_file})
        /\ \A i \in DOMAIN loader.files :
               ValidAlone(loader.files[i]) => has(loader.files[i].name)

C25_InvalidShapeRejected ==
    [][(loader.pc = "loop" /\ loader.i <= Len(loader.files)
          /\ loader.files[loader.i].is_file
          /\ InvalidShape(loader.files[loader.i])) =>
             /\ loader'.errors # loader.errors
             /\ loader'.errors[Len(loader'.errors)][1] = loader.i
             /\ loader'.put = loader.put
             /\ loader'.resolved = loader.resolved
             /\ _tools' = _tools
             /\ _definitions' = _definitions]_vars

C25_Witness ==
    /\ loader.pc = "loop"
    /\ loader.i = 3
    /\ loader.put = <<1>>
    /\ InvalidShape(loader.files[2])
    /\ loader.files[2].name = loader.files[1].name
    /\ Len(loader.errors) = 1
    /\ 2 \notin loader.resolved

----------------------------------------------------------------------------
(* Properties of the chat loop, over SpecChat *)

\* C30: when handle_message_with_tools fails with LLMConnectionError or
\* LLMAPIError, the chat loop removes the user message that got no response:
\* once the error is handled, the conversation's messages are those it held
\* before the user input was added, whichever iteration the error occurred in.
C30_UserMessageRemoved ==
    [][(chat.pc = "except" /\ chat'.pc = "input") => messages' = chat.before]_vars

C32_FailureChangesNothing ==
    \A t \in Threads :
        (Leaving(t, "register_from_definition") /\ threads[t].result.kind = "raise") =>
           /\ SameMap(_tools, threads[t].seen.tools)
           /\ SameMap(_definitions, threads[t].seen.defs)

\* C35: in every state a thread can observe, a name that has a definition
\* (get_definition returns it) has the tool created from that definition
\* (get returns the wrapper of that definition).
C35_DefinitionMatchesTool ==
    Observable =>
       \A n \in DOMAIN _definitions : get(n) = Returned(Wrapper(_definitions[n]))

\* C36: every get_instance call returns a ToolRegistry instance, never None,
\* whatever reset_instance calls other threads interleave with it.
C36_NeverNone ==
    \A t \in Threads :
        (callers[t].pc = "done" /\ callers[t].op = "get_instance") =>
           callers[t].result # 0

\* C33: execute / execute_async raises ToolTimeoutError only when the wait
\* for the body ran into the effective deadline: a body that settles before
\* the deadline, whatever it returns or raises, never makes the call report
\* 'exceeded timeout'.
C33_TimeoutOnlyAtDeadline ==
    (Settled /\ RaisedType(outcome, "ToolTimeoutError")) => frame.deadline_hit

\* C34: the tool bodies of one batch never run at the same time: the body of
\* a later request runs only when the body of every earlier request of the
\* batch has finished running, also when the earlier request timed out.
C34_BodiesOneAtATime ==
    \A i, j \in 1..MaxBatch :
        (i < j /\ futures[j].state = "running") => futures[i].state # "running"

C38_ShutdownWaits ==
    /\ [][(pc = "shutdown" /\ pc' # "shutdown") =>
             /\ queue = <<>>
             /\ \A k \in DOMAIN futures : futures[k].state \notin {"queued", "running"}]_vars
    /\ []((_shutdown /\ pc # "shutdown") =>
             /\ RunningBodies = {}
             /\ \A k \in DOMAIN futures : futures[k].state # "queued")
    /\ [][(pc = "execute" /\ pc' # "execute" /\ _shutdown) =>
             /\ pc' = "settled"
             /\ ~frame'.invoked
             /\ futures' = futures /\ queue' = queue
             /\ IF Validation(frame').kind = "raise"
                   THEN outcome' = Validation(frame')
                   ELSE /\ ReturnedStatus(outcome', {"error"})
                        /\ outcome'.value.metadata.exception_type = "RuntimeError"]_vars

C38_Witness ==
    /\ Settled /\ _shutdown
    /\ Validation(frame).kind # "raise"
    /\ ~frame.invoked
    /\ ReturnedStatus(outcome, {"error"})
    /\ Cur = 2
    /\ futures[1].state = "done"
    /\ results[1].is_error

====
